---- MODULE Spec2Model ----
(***************************************************************************)
(* Model of the Lambda-backed client of phc-sdk-go: client/client.go       *)
(* (type Client) and its sibling (type LambdaClient).                      *)
(*                                                                         *)
(* Strings and byte slices are sequences of symbols.  A symbol is either   *)
(* one of the characters the code or encoding/json treats specially        *)
(* ('/', '"', '\', '{', '}', '[', ']', ':', ',') or a run of ordinary      *)
(* characters ("acct", "null", "200").  A Go pointer or error is a         *)
(* sequence of length 0 (nil) or 1.  A Go map is [isNil, kv].              *)
(***************************************************************************)
EXTENDS Integers, Sequences, FiniteSets, TLC

VARIABLES client, pc, call, pending, sent, resp, result, prev

vars == <<client, pc, call, pending, sent, resp, result, prev>>

\* ------------------------------------------------------------------ bounds
MaxUriLen == 3
MaxValues == 2
MaxErrors == 2

\* ------------------------------------------------------- Go maps, pointers
EmptyKV == [k \in {} |-> <<>>]
NilMap == [isNil |-> TRUE, kv |-> EmptyKV]
MakeMap(f) == [isNil |-> FALSE, kv |-> f]
Nil == <<>>
Ptr(x) == <<x>>

\* ========================================================================
\* encoding/json, encoder side
\* ========================================================================

\* Byte order of the symbols that occur in map keys (json sorts map keys).
SymOrder ==
  <<"\"", "/", "Content-Type", "LifeOmic-Account", "LifeOmic-Policy",
    "LifeOmic-User", "X-Req", "X-Test", "\\", "a", "b", "content-type",
    "v", "x">>

Rank(c) == CHOOSE i \in 1..Len(SymOrder) : SymOrder[i] = c

RECURSIVE StrLess(_, _)
StrLess(a, b) ==
  IF a = <<>> THEN b # <<>>
  ELSE IF b = <<>> THEN FALSE
  ELSE IF Head(a) = Head(b) THEN StrLess(Tail(a), Tail(b))
  ELSE Rank(Head(a)) < Rank(Head(b))

RECURSIVE SortKeys(_)
SortKeys(S) ==
  IF S = {} THEN <<>>
  ELSE LET m == CHOOSE x \in S : \A y \in S \ {x} : StrLess(x, y)
       IN <<m>> \o SortKeys(S \ {m})

EscapeSym(c) ==
  IF c = "\"" THEN <<"\\", "\"">>
  ELSE IF c = "\\" THEN <<"\\", "\\">>
  ELSE <<c>>

\* concatenation of ss[lo..hi]
RECURSIVE Concat(_, _, _)
Concat(ss, lo, hi) ==
  IF lo > hi THEN <<>>
  ELSE IF lo = hi THEN ss[lo]
  ELSE LET mid == (lo + hi) \div 2 IN
    Concat(ss, lo, mid) \o Concat(ss, mid + 1, hi)

EscapeStr(s) == Concat([j \in 1..Len(s) |-> EscapeSym(s[j])], 1, Len(s))

EncodeString(s) == <<"\"">> \o EscapeStr(s) \o <<"\"">>

EncodeBool(b) == IF b THEN <<"true">> ELSE <<"false">>

NumSyms == {"0", "1", "200", "404"}
NumVal(c) ==
  IF c = "0" THEN 0 ELSE IF c = "1" THEN 1 ELSE IF c = "200" THEN 200 ELSE 404
EncodeInt(n) == <<CHOOSE c \in NumSyms : NumVal(c) = n>>

\* A map is written as null when nil, else as an object with sorted keys;
\* vals gives the text of each key's value.
EncodeMap(m, vals) ==
  LET RECURSIVE Entries(_)
      Entries(keys) ==
        IF keys = <<>> THEN <<>>
        ELSE EncodeString(Head(keys)) \o <<":">> \o vals[Head(keys)]
             \o (IF Len(keys) > 1 THEN <<",">> ELSE <<>>)
             \o Entries(Tail(keys))
  IN IF m.isNil THEN <<"null">>
     ELSE <<"{">> \o Entries(SortKeys(DOMAIN m.kv)) \o <<"}">>
EncodeBoolMap(m) == EncodeMap(m, [k \in DOMAIN m.kv |-> EncodeBool(m.kv[k])])
EncodeStringMap(m) ==
  EncodeMap(m, [k \in DOMAIN m.kv |-> EncodeString(m.kv[k])])

EncodeField(name, val) == EncodeString(<<name>>) \o <<":">> \o val

\* ========================================================================
\* encoding/json, decoder side: a JSON text is scanned into a value tree
\* ========================================================================
JV(t, b, n, s, items, keys) ==
  [t |-> t, b |-> b, n |-> n, s |-> s, items |-> items, keys |-> keys]
JNull == JV("null", FALSE, 0, <<>>, <<>>, <<>>)
JBool(b) == JV("bool", b, 0, <<>>, <<>>, <<>>)
JNum(n) == JV("num", FALSE, n, <<>>, <<>>, <<>>)
JStr(s) == JV("str", FALSE, 0, s, <<>>, <<>>)
JArr(items) == JV("arr", FALSE, 0, <<>>, items, <<>>)
JObj(keys, items) == JV("obj", FALSE, 0, <<>>, items, keys)

ScanFail == [ok |-> FALSE, v |-> JNull, next |-> 0]
ScanOk(v, next) == [ok |-> TRUE, v |-> v, next |-> next]

\* the number of backslashes that immediately precede position j, from lo on
BackslashRun(txt, lo, j) ==
  CHOOSE k \in 0..(j - lo) :
    /\ \A m \in (j - k)..(j - 1) : txt[m] = "\\"
    /\ (k = j - lo \/ txt[j - k - 1] # "\\")
Escaped(txt, lo, j) == BackslashRun(txt, lo, j) % 2 = 1
ClosingQuote(txt, lo, j) == txt[j] = "\"" /\ ~Escaped(txt, lo, j)
StartsEscape(txt, lo, j) == txt[j] = "\\" /\ ~Escaped(txt, lo, j)

\* the symbols of the marked entries <<symbol, keep>> that are kept
Firsts(pairs) == [j \in 1..Len(pairs) |-> pairs[j][1]]
Kept(marked) == Firsts(SelectSeq(marked, LAMBDA p : p[2]))

\* the string literal txt[i..end-1], closed by the quote at end
StringUpTo(txt, i, end) ==
  IF \E j \in i..(end - 1) :
       StartsEscape(txt, i, j) /\ txt[j + 1] \notin {"\"", "\\", "/"}
    THEN ScanFail
    ELSE ScanOk(JStr(Kept([j \in 1..(end - i) |->
                             <<txt[i + j - 1],
                               ~StartsEscape(txt, i, i + j - 1)>>])),
                end + 1)

\* a string literal; i is the position after the opening quote
ScanString(txt, i) ==
  IF \A j \in i..Len(txt) : ~ClosingQuote(txt, i, j) THEN ScanFail
  ELSE StringUpTo(txt, i,
                  CHOOSE j \in i..Len(txt) :
                    /\ ClosingQuote(txt, i, j)
                    /\ \A m \in i..(j - 1) : ~ClosingQuote(txt, i, m))

RECURSIVE ScanValue(_, _), ScanMembers(_, _, _, _), MemberValue(_, _, _, _),
          MemberNext(_, _, _, _), ScanElements(_, _, _), ElementNext(_, _, _)
ScanValue(txt, i) ==
  IF i > Len(txt) THEN ScanFail
  ELSE IF txt[i] = "{"
    THEN IF i + 1 <= Len(txt) /\ txt[i + 1] = "}"
           THEN ScanOk(JObj(<<>>, <<>>), i + 2)
           ELSE ScanMembers(txt, i + 1, <<>>, <<>>)
  ELSE IF txt[i] = "["
    THEN IF i + 1 <= Len(txt) /\ txt[i + 1] = "]"
           THEN ScanOk(JArr(<<>>), i + 2)
           ELSE ScanElements(txt, i + 1, <<>>)
  ELSE IF txt[i] = "\"" THEN ScanString(txt, i + 1)
  ELSE IF txt[i] = "null" THEN ScanOk(JNull, i + 1)
  ELSE IF txt[i] = "true" THEN ScanOk(JBool(TRUE), i + 1)
  ELSE IF txt[i] = "false" THEN ScanOk(JBool(FALSE), i + 1)
  ELSE IF txt[i] \in NumSyms THEN ScanOk(JNum(NumVal(txt[i])), i + 1)
  ELSE ScanFail

\* i is the position where the next member's key must start
ScanMembers(txt, i, keys, items) ==
  IF i > Len(txt) \/ txt[i] # "\"" THEN ScanFail
  ELSE MemberValue(txt, keys, items, ScanString(txt, i + 1))

\* k is the scanned key; ':' and the member's value follow
MemberValue(txt, keys, items, k) ==
  IF ~k.ok \/ k.next > Len(txt) \/ txt[k.next] # ":" THEN ScanFail
  ELSE MemberNext(txt, Append(keys, k.v.s), items, ScanValue(txt, k.next + 1))

\* e is the scanned value; ',' and a further member, or '}', follow
MemberNext(txt, keys, items, e) ==
  IF ~e.ok \/ e.next > Len(txt) THEN ScanFail
  ELSE IF txt[e.next] = ","
    THEN ScanMembers(txt, e.next + 1, keys, Append(items, e.v))
  ELSE IF txt[e.next] = "}"
    THEN ScanOk(JObj(keys, Append(items, e.v)), e.next + 1)
  ELSE ScanFail

ScanElements(txt, i, items) == ElementNext(txt, items, ScanValue(txt, i))

\* e is the scanned element; ',' and a further element, or ']', follow
ElementNext(txt, items, e) ==
  IF ~e.ok \/ e.next > Len(txt) THEN ScanFail
  ELSE IF txt[e.next] = ","
    THEN ScanElements(txt, e.next + 1, Append(items, e.v))
  ELSE IF txt[e.next] = "]"
    THEN ScanOk(JArr(Append(items, e.v)), e.next + 1)
  ELSE ScanFail

\* The whole input must be one value; anything else is a syntax error.
WholeText(txt, r) == IF r.ok /\ r.next = Len(txt) + 1 THEN r ELSE ScanFail
ScanText(txt) == WholeText(txt, ScanValue(txt, 1))

\* Object member lookup: the last occurrence of a key wins.
HasKey(o, k) == \E i \in 1..Len(o.keys) : o.keys[i] = k
Member(o, k) ==
  o.items[CHOOSE i \in 1..Len(o.keys) :
            o.keys[i] = k /\ \A j \in (i + 1)..Len(o.keys) : o.keys[j] # k]
Field(o, name) == IF HasKey(o, <<name>>) THEN Member(o, <<name>>) ELSE JNull
KeySet(o) == {o.keys[i] : i \in 1..Len(o.keys)}

\* ========================================================================
\* client.go
\* ========================================================================

\* strings.IndexAny(uri, "/"), 0-based, -1 when absent
IndexAny(uri, c) ==
  IF \E i \in 1..Len(uri) : uri[i] = c
    THEN (CHOOSE i \in 1..Len(uri) :
            uri[i] = c /\ \A j \in 1..(i - 1) : uri[j] # c) - 1
    ELSE -1

\* variant: splits at the last '/'
parseUriLastSlash(uri) ==
  IF \A i \in 1..Len(uri) : uri[i] # "/"
    THEN [functionName |-> Nil, path |-> Nil,
          err |-> Ptr(<<"Invalid URL provided">>)]
    ELSE LET index == CHOOSE i \in 1..Len(uri) :
                        uri[i] = "/" /\ \A j \in (i + 1)..Len(uri) : uri[j] # "/"
         IN [functionName |-> Ptr(SubSeq(uri, 1, index - 1)),
             path |-> Ptr(SubSeq(uri, index, Len(uri))),
             err |-> Nil]

parseUri(uri) ==
  LET index == IndexAny(uri, "/") IN
    IF index = -1
      THEN [functionName |-> Nil, path |-> Nil,
            err |-> Ptr(<<"Invalid URL provided">>)]
      ELSE [functionName |-> Ptr(SubSeq(uri, 1, index)),
            path |-> Ptr(SubSeq(uri, index + 1, Len(uri))),
            err |-> Nil]

\* json.Marshal(&policy{Rules: rules}); a map[string]bool always serializes
MarshalPolicy(rules) ==
  [bytes |-> <<"{">> \o EncodeField("rules", EncodeBoolMap(rules))
             \o <<"}">>,
   err |-> Nil]

\* variant: account and user under each other's key
buildHeadersSwapped(c) ==
  LET policy == MarshalPolicy(c.rules).bytes IN
    MakeMap((<<"LifeOmic-Account">> :> c.user)
            @@ (<<"LifeOmic-User">> :> c.account)
            @@ (<<"content-type">> :> <<"application/json">>)
            @@ (<<"LifeOmic-Policy">> :> policy))

buildHeaders(c) ==
  LET policy == MarshalPolicy(c.rules).bytes IN
    MakeMap((<<"LifeOmic-Account">> :> c.account)
            @@ (<<"LifeOmic-User">> :> c.user)
            @@ (<<"content-type">> :> <<"application/json">>)
            @@ (<<"LifeOmic-Policy">> :> policy))

\* json.Marshal of the payload struct: strings and string maps only
MarshalPayload(p) ==
  [bytes |-> <<"{">>
             \o EncodeField("headers", EncodeStringMap(p.Headers))
             \o <<",">> \o EncodeField("path", EncodeString(p.Path))
             \o <<",">> \o EncodeField("httpMethod", EncodeString(p.HttpMethod))
             \o <<",">> \o EncodeField("queryStringParameters",
                                       EncodeStringMap(p.QueryStringParameters))
             \o <<",">> \o EncodeField("body", EncodeString(p.Body))
             \o <<"}">>,
   err |-> Nil]

\* interface{} values of the variables map: an int, or a channel, which
\* json.Marshal rejects with an UnsupportedTypeError
GoInt(n) == [kind |-> "int", n |-> n]
GoChan == [kind |-> "chan", n |-> 0]
EncodeAny(v) == EncodeInt(v.n)

\* json.Marshal(&Body{Query: query, Variables: variables})
MarshalGqlBody(query, variables) ==
  IF \E k \in DOMAIN variables.kv : variables.kv[k].kind = "chan"
    THEN [bytes |-> <<>>, err |-> Ptr(<<"json: unsupported type">>)]
    ELSE [bytes |-> <<"{">> \o EncodeField("query", EncodeString(query))
                    \o <<",">>
                    \o EncodeField("variables", EncodeMap(variables,
                                   [k \in DOMAIN variables.kv |->
                                      EncodeAny(variables.kv[k])]))
                    \o <<"}">>,
          err |-> Nil]

\* returns the bytes, or fatal when the envelope does not serialize
buildGqlQuery(c, path, query, variables) ==
  LET body == MarshalGqlBody(query, variables).bytes
      payload == [Headers |-> buildHeaders(c),
                  HttpMethod |-> <<"POST">>,
                  QueryStringParameters |-> MakeMap(EmptyKV),
                  Path |-> path,
                  Body |-> body]
      m == MarshalPayload(payload)
  IN [fatal |-> m.err # Nil, bytes |-> m.bytes]

\* json.Unmarshal(bytes, &responsePayload)
ZeroResponsePayload == [Body |-> <<>>, StatusCode |-> 0, Headers |-> NilMap]
TypeError == Ptr(<<"json: cannot unmarshal">>)
SyntaxError == Ptr(<<"json: invalid syntax">>)

StringMapOk(v) ==
  v.t = "null" \/ (v.t = "obj" /\ \A i \in 1..Len(v.items) :
                                     v.items[i].t \in {"str", "null"})
ToStringMap(v) ==
  IF v.t = "null" THEN NilMap
  ELSE MakeMap([k \in KeySet(v) |-> Member(v, k).s])

ResponsePayloadOf(b, sc, h) ==
  IF b.t \notin {"str", "null"} \/ sc.t \notin {"num", "null"}
     \/ ~StringMapOk(h)
    THEN [err |-> TypeError, v |-> ZeroResponsePayload]
    ELSE [err |-> Nil,
          v |-> [Body |-> b.s, StatusCode |-> sc.n,
                 Headers |-> ToStringMap(h)]]

DecodeResponsePayload(r) ==
  IF ~r.ok THEN [err |-> SyntaxError, v |-> ZeroResponsePayload]
  ELSE IF r.v.t = "null" THEN [err |-> Nil, v |-> ZeroResponsePayload]
  ELSE IF r.v.t # "obj" THEN [err |-> TypeError, v |-> ZeroResponsePayload]
  ELSE ResponsePayloadOf(Field(r.v, "body"), Field(r.v, "statusCode"),
                         Field(r.v, "headers"))

UnmarshalResponsePayload(bytes) == DecodeResponsePayload(ScanText(bytes))

\* json.Unmarshal([]byte(payload.Body), &responseBody)
ZeroResponseBody == [Data |-> NilMap, Errors |-> <<>>]

ErrorElemOk(e) ==
  e.t = "null" \/ (e.t = "obj" /\ Field(e, "message").t \in {"str", "null"})
ErrorsOk(v) ==
  v.t = "null" \/ (v.t = "arr" /\ \A i \in 1..Len(v.items) :
                                     ErrorElemOk(v.items[i]))
ToErrors(v) ==
  IF v.t = "null" THEN <<>>
  ELSE [i \in 1..Len(v.items) |->
          [Message |-> IF v.items[i].t = "null" THEN <<>>
                       ELSE Field(v.items[i], "message").s]]
ToData(v) ==
  IF v.t = "null" THEN NilMap
  ELSE MakeMap([k \in KeySet(v) |-> Member(v, k)])

ResponseBodyOf(d, e) ==
  IF d.t \notin {"obj", "null"} \/ ~ErrorsOk(e)
    THEN [err |-> TypeError, v |-> ZeroResponseBody]
    ELSE [err |-> Nil, v |-> [Data |-> ToData(d), Errors |-> ToErrors(e)]]

DecodeResponseBody(r) ==
  IF ~r.ok THEN [err |-> SyntaxError, v |-> ZeroResponseBody]
  ELSE IF r.v.t = "null" THEN [err |-> Nil, v |-> ZeroResponseBody]
  ELSE IF r.v.t # "obj" THEN [err |-> TypeError, v |-> ZeroResponseBody]
  ELSE ResponseBodyOf(Field(r.v, "data"), Field(r.v, "errors"))

UnmarshalResponseBody(bytes) == DecodeResponseBody(ScanText(bytes))

\* variant: the value is not put into the list
toHeaderEmptyLists(header) == [k \in DOMAIN header.kv |-> <<>>]

toHeader(header) == [k \in DOMAIN header.kv |-> <<header.kv[k]>>]

\* ioutil.ReadAll: the bytes read so far and the reader's error
ReadAll(body) == [bytes |-> body.data, err |-> body.err]

\* ========================================================================
\* inputs: clients, call arguments, gateway replies
\* ========================================================================
SeqsUpTo(S, n) == UNION {[1..k -> S] : k \in 0..n}

Rules ==
  {NilMap, MakeMap(EmptyKV),
   MakeMap((<<"a">> :> FALSE) @@ (<<"a", "\"">> :> TRUE))}
Clients ==
  {[invoker |-> "lambda", account |-> <<"acct">>, user |-> <<"usr">>,
    rules |-> r] : r \in Rules}

Uris == SeqsUpTo({"fn", "/"}, MaxUriLen)
Queries == {<<"query", "{", "x", "}">>}
Variables ==
  {NilMap, MakeMap(<<"v">> :> GoInt(1)), MakeMap(<<"v">> :> GoChan)}

\* http.Request: Method, URL.String(), Header, Body
Methods == {<<"GET">>}
FixedKeys ==
  {<<"LifeOmic-Account">>, <<"LifeOmic-User">>, <<"content-type">>,
   <<"LifeOmic-Policy">>}
CallerKeys == {<<"LifeOmic-Account">>, <<"X-Req">>}
ValueLists == SeqsUpTo({<<"x">>, <<"y">>}, MaxValues)
ReqHeaders ==
  {h \in UNION {[D -> ValueLists] : D \in SUBSET CallerKeys} :
     <<"LifeOmic-Account">> \in DOMAIN h
       => h[<<"LifeOmic-Account">>] \in {<<>>, <<<<"x">>>>}}
NilBody == [isNil |-> TRUE, data |-> <<>>, err |-> Nil]
ReadableBodies ==
  {[isNil |-> FALSE, data |-> <<"he", "llo">>, err |-> Nil],
   [isNil |-> FALSE, data |-> <<"he">>, err |-> Ptr(<<"unexpected EOF">>)]}
Bodies == {NilBody} \cup ReadableBodies
\* every routing string with a plain request, one routing string with every
\* header map and body
Requests ==
  {[uri |-> u, method |-> m, header |-> EmptyKV, body |-> b] :
     u \in Uris, m \in Methods, b \in ReadableBodies}
  \cup {[uri |-> <<"fn", "/">>, method |-> m, header |-> h, body |-> b] :
          m \in Methods, h \in ReqHeaders, b \in Bodies}

\* texts the invoked function may answer with
RECURSIVE JoinFields(_)
JoinFields(fs) ==
  IF fs = <<>> THEN <<>>
  ELSE IF Head(fs) = <<>> THEN JoinFields(Tail(fs))
  ELSE LET rest == JoinFields(Tail(fs)) IN
    Head(fs) \o (IF rest = <<>> THEN <<>> ELSE <<",">> \o rest)
ObjText(fs) == <<"{">> \o JoinFields(fs) \o <<"}">>

RECURSIVE JoinElems(_)
JoinElems(es) ==
  IF es = <<>> THEN <<>>
  ELSE Head(es) \o (IF Len(es) > 1 THEN <<",">> ELSE <<>>)
       \o JoinElems(Tail(es))

ErrorsText(msgs) ==
  <<"[">>
  \o JoinElems([i \in 1..Len(msgs) |->
                  ObjText(<<EncodeField("message", EncodeString(msgs[i]))>>)])
  \o <<"]">>

DataFields ==
  {<<>>, EncodeField("data", <<"null">>),
   EncodeField("data", ObjText(<<EncodeField("x", <<"1">>)>>))}
ErrorsFields ==
  {<<>>} \cup {EncodeField("errors", ErrorsText(l)) :
                 l \in SeqsUpTo({<<"boom">>, <<"second">>}, MaxErrors)}
DataX == EncodeField("data", ObjText(<<EncodeField("x", <<"1">>)>>))
GqlBodyTexts ==
  {ObjText(<<d, <<>>>>) : d \in DataFields}
  \cup {ObjText(<<DataX, e>>) : e \in ErrorsFields}
  \cup {ObjText(<<EncodeField("errors", ErrorsText(<<<<"boom">>>>))>>)}
  \cup {<<"hello">>, <<"null">>,
        ObjText(<<EncodeField("errors", EncodeString(<<"boom">>))>>),
        ObjText(<<EncodeField("data", <<"1">>)>>),
        ObjText(<<EncodeField("errors", <<"[", "{", "}", "]">>)>>)}

EnvelopeText(body, status, headers) ==
  ObjText(<<IF body = Nil THEN <<>>
            ELSE EncodeField("body", EncodeString(body[1])),
            IF status = Nil THEN <<>>
            ELSE EncodeField("statusCode", EncodeInt(status[1])),
            IF headers = Nil THEN <<>>
            ELSE EncodeField("headers", EncodeStringMap(headers[1]))>>)

ResponseHeaders ==
  {NilMap, MakeMap(EmptyKV), MakeMap(<<"X-Test">> :> <<"v">>),
   MakeMap((<<"X-Test">> :> <<"v">>) @@ (<<"a">> :> <<"x", "\"">>))}

GqlReplyTexts ==
  {EnvelopeText(Ptr(b), Ptr(200), Ptr(MakeMap(EmptyKV))) : b \in GqlBodyTexts}
DoReplyTexts ==
  {EnvelopeText(Ptr(<<"hello">>), sc, Ptr(MakeMap(<<"X-Test">> :> <<"v">>))) :
     sc \in {Nil, Ptr(200)}}
  \cup {EnvelopeText(Ptr(<<"hello">>), Ptr(404), Ptr(m)) :
          m \in ResponseHeaders}
  \cup {EnvelopeText(Nil, Nil, Nil)}
BadReplyTexts ==
  {<<"{">>, <<"[", "]">>,
   ObjText(<<EncodeField("statusCode", EncodeString(<<"200">>))>>)}

\* lambda.InvokeOutput and error, as Invoke returns them
InvokeFailed == [err |-> Ptr(<<"invoke failed">>), Payload |-> <<>>]
Reply(t) == [err |-> Nil, Payload |-> t]
GqlReplies ==
  {InvokeFailed} \cup {Reply(t) : t \in GqlReplyTexts \cup BadReplyTexts}
DoReplies ==
  {InvokeFailed} \cup {Reply(t) : t \in DoReplyTexts \cup BadReplyTexts}
Replies(op) == IF op = "Gql" THEN GqlReplies ELSE DoReplies

\* ========================================================================
\* the calls
\* ========================================================================
NoCall ==
  [op |-> "none", impl |-> "none", uri |-> <<>>, query |-> <<>>,
   variables |-> NilMap, method |-> <<>>, header |-> EmptyKV,
   body |-> NilBody, read |-> "none"]
NoResult == [kind |-> "none", value |-> Nil, err |-> Nil]
Returned(value, err) == [kind |-> "return", value |-> value, err |-> err]
Panicked == [kind |-> "panic", value |-> Nil, err |-> Nil]
Fatal == [kind |-> "fatal", value |-> Nil, err |-> Nil]

Init ==
  /\ client \in Clients
  /\ pc = "idle"
  /\ call = NoCall
  /\ pending = Nil
  /\ sent = <<>>
  /\ resp = Nil
  /\ result = NoResult
  /\ prev = Nil

\* Gql up to the point where Invoke is entered
GqlStart(uri, query, variables) ==
  /\ pc = "idle"
  /\ call' = [NoCall EXCEPT !.op = "Gql", !.uri = uri, !.query = query,
                            !.variables = variables]
  /\ LET p == parseUri(uri) IN
       IF p.err # Nil
         THEN /\ result' = Returned(Nil, p.err)
              /\ pc' = "done"
              /\ pending' = Nil
         ELSE LET q == buildGqlQuery(client, p.path[1], query, variables) IN
           IF q.fatal
             THEN /\ result' = Fatal
                  /\ pc' = "done"
                  /\ pending' = Nil
             ELSE /\ pending' = Ptr([FunctionName |-> p.functionName[1],
                                     Payload |-> q.bytes])
                  /\ pc' = "invoking"
                  /\ result' = NoResult
  /\ UNCHANGED <<client, sent, resp, prev>>

\* variant: a failed Invoke is tried a second time
InvokeRetry(reply) ==
  /\ pc = "invoking"
  /\ sent' = IF reply.err # Nil THEN Append(Append(sent, pending[1]), pending[1])
             ELSE Append(sent, pending[1])
  /\ resp' = Ptr(reply)
  /\ pending' = Nil
  /\ pc' = "invoked"
  /\ UNCHANGED <<client, call, result, prev>>

\* the gateway: one synchronous Invoke, answered with any reply
Invoke(reply) ==
  /\ pc = "invoking"
  /\ sent' = Append(sent, pending[1])
  /\ resp' = Ptr(reply)
  /\ pending' = Nil
  /\ pc' = "invoked"
  /\ UNCHANGED <<client, call, result, prev>>

\* variant: the last reported error is surfaced
GqlBodyResultLastError(body) ==
  IF body.err # Nil THEN Returned(Nil, body.err)
  ELSE IF Len(body.v.Errors) > 0
    THEN Returned(Nil, Ptr(body.v.Errors[Len(body.v.Errors)].Message))
  ELSE Returned(Ptr(body.v.Data), Nil)

\* Gql once payload.Body is decoded: the first error, or the data
GqlBodyResult(body) ==
  IF body.err # Nil THEN Returned(Nil, body.err)
  ELSE IF Len(body.v.Errors) > 0
    THEN Returned(Nil, Ptr(body.v.Errors[1].Message))
  ELSE Returned(Ptr(body.v.Data), Nil)

\* Gql once resp.Payload is decoded
GqlPayloadResult(payload) ==
  IF payload.err # Nil THEN Returned(Nil, payload.err)
  ELSE GqlBodyResult(UnmarshalResponseBody(payload.v.Body))

\* Gql after Invoke has returned
GqlFinish ==
  /\ pc = "invoked"
  /\ call.op = "Gql"
  /\ result' = IF resp[1].err # Nil THEN Returned(Nil, resp[1].err)
               ELSE GqlPayloadResult(UnmarshalResponsePayload(resp[1].Payload))
  /\ pc' = "done"
  /\ UNCHANGED <<client, call, pending, sent, resp, prev>>

\* the caller-header merge of Do: fixed keys are kept, v[0] is taken
MergePanics(headers, reqHeader) ==
  \E k \in DOMAIN reqHeader : k \notin DOMAIN headers.kv /\ reqHeader[k] = <<>>
\* variant: the caller's value replaces the fixed one
MergeHeadersCallerWins(headers, reqHeader) ==
  MakeMap([k \in DOMAIN headers.kv \cup DOMAIN reqHeader |->
             IF k \in DOMAIN reqHeader /\ reqHeader[k] # <<>>
               THEN reqHeader[k][1]
               ELSE headers.kv[k]])
\* variant: the last value of a multi-valued header is taken
MergeHeadersLastValue(headers, reqHeader) ==
  MakeMap([k \in DOMAIN headers.kv \cup DOMAIN reqHeader |->
             IF k \in DOMAIN headers.kv THEN headers.kv[k]
             ELSE reqHeader[k][Len(reqHeader[k])]])
MergeHeaders(headers, reqHeader) ==
  MakeMap([k \in DOMAIN headers.kv \cup DOMAIN reqHeader |->
             IF k \in DOMAIN headers.kv THEN headers.kv[k]
             ELSE reqHeader[k][1]])

\* variant: the merge stores a caller value in the client
DoStartWritesClient(uri, method, header, body) ==
  /\ pc = "idle"
  /\ LET p == parseUri(uri)
         fixed == buildHeaders(client)
         headers == MergeHeaders(fixed, header)
         rd == ReadAll(body)
         data == MarshalPayload([Headers |-> headers,
                                 HttpMethod |-> method,
                                 QueryStringParameters |-> MakeMap(EmptyKV),
                                 Path |-> p.path[1],
                                 Body |-> rd.bytes])
         c == [NoCall EXCEPT !.op = "Do", !.impl = "Client", !.uri = uri,
                             !.method = method, !.header = header,
                             !.body = body]
     IN IF p.err # Nil
          THEN /\ result' = Returned(Nil, p.err)
               /\ pc' = "done"
               /\ pending' = Nil
               /\ call' = c
               /\ client' = client
        ELSE IF MergePanics(fixed, header) \/ body.isNil
          THEN /\ result' = Panicked
               /\ pc' = "done"
               /\ pending' = Nil
               /\ call' = c
               /\ client' = client
        ELSE /\ pending' = Ptr([FunctionName |-> p.functionName[1],
                                Payload |-> data.bytes])
             /\ pc' = "invoking"
             /\ result' = NoResult
             /\ call' = [c EXCEPT !.read = IF rd.err = Nil THEN "ok"
                                           ELSE "failed"]
             /\ client' = IF <<"X-Req">> \in DOMAIN header
                            THEN [client EXCEPT !.account = header[<<"X-Req">>][1]]
                            ELSE client
  /\ UNCHANGED <<sent, resp, prev>>

\* (*Client).Do up to the point where Invoke is entered
DoStart(uri, method, header, body) ==
  /\ pc = "idle"
  /\ LET p == parseUri(uri)
         fixed == buildHeaders(client)
         headers == MergeHeaders(fixed, header)
         rd == ReadAll(body)
         data == MarshalPayload([Headers |-> headers,
                                 HttpMethod |-> method,
                                 QueryStringParameters |-> MakeMap(EmptyKV),
                                 Path |-> p.path[1],
                                 Body |-> rd.bytes])
         c == [NoCall EXCEPT !.op = "Do", !.impl = "Client", !.uri = uri,
                             !.method = method, !.header = header,
                             !.body = body]
     IN IF p.err # Nil
          THEN /\ result' = Returned(Nil, p.err)
               /\ pc' = "done"
               /\ pending' = Nil
               /\ call' = c
        ELSE IF MergePanics(fixed, header) \/ body.isNil
          THEN /\ result' = Panicked
               /\ pc' = "done"
               /\ pending' = Nil
               /\ call' = c
        ELSE /\ pending' = Ptr([FunctionName |-> p.functionName[1],
                                Payload |-> data.bytes])
             /\ pc' = "invoking"
             /\ result' = NoResult
             /\ call' = [c EXCEPT !.read = IF rd.err = Nil THEN "ok"
                                           ELSE "failed"]
  /\ UNCHANGED <<client, sent, resp, prev>>

\* (*LambdaClient).Do up to the point where Invoke is entered
LambdaClientDoStart(uri, method, header, body) ==
  /\ pc = "idle"
  /\ LET p == parseUri(uri)
         fixed == buildHeaders(client)
         headers == MergeHeaders(fixed, header)
         rd == ReadAll(body)
         data == MarshalPayload([Headers |-> headers,
                                 HttpMethod |-> method,
                                 QueryStringParameters |-> MakeMap(EmptyKV),
                                 Path |-> p.path[1],
                                 Body |-> rd.bytes])
         c == [NoCall EXCEPT !.op = "Do", !.impl = "LambdaClient",
                             !.uri = uri, !.method = method,
                             !.header = header, !.body = body]
     IN IF p.err # Nil
          THEN /\ result' = Returned(Nil, p.err)
               /\ pc' = "done"
               /\ pending' = Nil
               /\ call' = c
        ELSE IF MergePanics(fixed, header) \/ body.isNil
          THEN /\ result' = Panicked
               /\ pc' = "done"
               /\ pending' = Nil
               /\ call' = c
        ELSE IF rd.err # Nil
          THEN /\ result' = Returned(Nil, rd.err)
               /\ pc' = "done"
               /\ pending' = Nil
               /\ call' = [c EXCEPT !.read = "failed"]
        ELSE IF data.err # Nil
          THEN /\ result' = Returned(Nil, data.err)
               /\ pc' = "done"
               /\ pending' = Nil
               /\ call' = [c EXCEPT !.read = "ok"]
        ELSE /\ pending' = Ptr([FunctionName |-> p.functionName[1],
                                Payload |-> data.bytes])
             /\ pc' = "invoking"
             /\ result' = NoResult
             /\ call' = [c EXCEPT !.read = "ok"]
  /\ UNCHANGED <<client, sent, resp, prev>>

\* Do once lambdaResponse.Payload is decoded
DoPayloadResult(respPayload) ==
  IF respPayload.err # Nil THEN Returned(Nil, respPayload.err)
  ELSE Returned(Ptr([Body |-> respPayload.v.Body,
                     StatusCode |-> respPayload.v.StatusCode,
                     Header |-> toHeader(respPayload.v.Headers)]),
                Nil)

\* Do after Invoke has returned (the same code in both types)
DoFinish ==
  /\ pc = "invoked"
  /\ call.op = "Do"
  /\ result' = IF resp[1].err # Nil THEN Returned(Nil, resp[1].err)
               ELSE DoPayloadResult(UnmarshalResponsePayload(resp[1].Payload))
  /\ pc' = "done"
  /\ UNCHANGED <<client, call, pending, sent, resp, prev>>

\* the caller takes the outcome; the client is ready for the next call
Return ==
  /\ pc = "done"
  /\ pc' = "idle"
  /\ call' = NoCall
  /\ pending' = Nil
  /\ sent' = <<>>
  /\ resp' = Nil
  /\ result' = NoResult
  /\ UNCHANGED <<client, prev>>

Next ==
  \/ \E uri \in Uris, query \in Queries, variables \in Variables :
       GqlStart(uri, query, variables)
  \/ \E r \in Requests : DoStart(r.uri, r.method, r.header, r.body)
  \/ \E r \in Requests :
       LambdaClientDoStart(r.uri, r.method, r.header, r.body)
  \/ \E reply \in Replies(call.op) : Invoke(reply)
  \/ GqlFinish
  \/ DoFinish
  \/ Return

Spec == Init /\ [][Next]_vars

\* ------------------------------------------------------------------------
\* buildHeaders on its own, over a wider set of clients
\* ------------------------------------------------------------------------
RuleKeys == {<<"a">>, <<"a", "\"">>, <<"\\">>, <<"b">>}
AllRules ==
  {NilMap} \cup {MakeMap(f) : f \in UNION {[D -> BOOLEAN] : D \in SUBSET RuleKeys}}
AllClients ==
  {[invoker |-> "lambda", account |-> a, user |-> <<"usr">>, rules |-> r] :
     a \in {<<"acct">>, <<"usr">>}, r \in AllRules}

InitHeaders ==
  /\ client \in AllClients
  /\ pc = "idle"
  /\ call = NoCall
  /\ pending = Nil
  /\ sent = <<>>
  /\ resp = Nil
  /\ result = NoResult
  /\ prev = Nil

BuildHeadersCall ==
  /\ pc = "idle"
  /\ call' = [NoCall EXCEPT !.op = "buildHeaders"]
  /\ result' = Returned(Ptr(buildHeaders(client)), Nil)
  /\ pc' = "done"
  /\ UNCHANGED <<client, pending, sent, resp, prev>>

NextHeaders == BuildHeadersCall \/ Return

SpecHeaders == InitHeaders /\ [][NextHeaders]_vars

\* ------------------------------------------------------------------------
\* repeated calls: the caller keeps the outcome of an earlier Gql call
\* ------------------------------------------------------------------------
IdemUris == {<<"fn", "/">>, <<"fn">>}
IdemGqlReplies ==
  {InvokeFailed,
   Reply(EnvelopeText(Ptr(ObjText(<<EncodeField("data",
                                     ObjText(<<EncodeField("x", <<"1">>)>>))>>)),
                      Ptr(200), Ptr(MakeMap(EmptyKV)))),
   Reply(EnvelopeText(Ptr(ObjText(<<EncodeField("errors",
                                     ErrorsText(<<<<"boom">>>>))>>)),
                      Ptr(200), Ptr(MakeMap(EmptyKV))))}
IdemDoReplies ==
  {InvokeFailed,
   Reply(EnvelopeText(Ptr(<<"hello">>), Ptr(404),
                      Ptr(MakeMap(<<"X-Test">> :> <<"v">>))))}
IdemReqHeaders ==
  {EmptyKV, (<<"LifeOmic-Account">> :> <<<<"x">>>>) @@ (<<"X-Req">> :> <<<<"y">>>>)}
IdemBodies == ReadableBodies

ReturnRemember ==
  /\ pc = "done"
  /\ call.op = "Gql"
  /\ prev' = Ptr([uri |-> call.uri, query |-> call.query,
                  variables |-> call.variables, resp |-> resp,
                  sent |-> sent, result |-> result])
  /\ pc' = "idle"
  /\ call' = NoCall
  /\ pending' = Nil
  /\ sent' = <<>>
  /\ resp' = Nil
  /\ result' = NoResult
  /\ UNCHANGED client

NextIdem ==
  \/ \E uri \in IdemUris, query \in Queries, variables \in Variables :
       GqlStart(uri, query, variables)
  \/ \E uri \in IdemUris, method \in Methods, header \in IdemReqHeaders,
        body \in IdemBodies : DoStart(uri, method, header, body)
  \/ \E uri \in IdemUris, method \in Methods, header \in IdemReqHeaders,
        body \in IdemBodies : LambdaClientDoStart(uri, method, header, body)
  \/ \E reply \in (IF call.op = "Gql" THEN IdemGqlReplies ELSE IdemDoReplies) :
       Invoke(reply)
  \/ GqlFinish
  \/ DoFinish
  \/ Return
  \/ ReturnRemember

SpecIdem == Init /\ [][NextIdem]_vars

\* ========================================================================
\* properties
\* ========================================================================
HasSlash(uri) == \E i \in 1..Len(uri) : uri[i] = "/"
IsCall == call.op \in {"Gql", "Do"}

\* what the invoked function finds in the i-th payload it received
Envelope(i) == ScanText(sent[i].Payload).v
NoDupKeys(o) == Cardinality(KeySet(o)) = Len(o.keys)
RulesMatch(v, rules) ==
  IF rules.isNil THEN v.t = "null"
  ELSE /\ v.t = "obj"
       /\ NoDupKeys(v)
       /\ KeySet(v) = DOMAIN rules.kv
       /\ \A k \in DOMAIN rules.kv : Member(v, k) = JBool(rules.kv[k])
PolicyMatches(text, rules) ==
  LET r == ScanText(text) IN
    /\ r.ok
    /\ r.v.t = "obj"
    /\ r.v.keys = <<<<"rules">>>>
    /\ RulesMatch(r.v.items[1], rules)

\* C1: a call invokes the gateway at most once; exactly once when the routing
\* string splits (and, for Do, the body was read), never when it has no '/'.
C1_OneInvocation ==
  /\ Len(sent) <= 1
  /\ (IsCall /\ ~HasSlash(call.uri)) => (pending = Nil /\ Len(sent) = 0)
  /\ (pc = "done" /\ IsCall /\ HasSlash(call.uri)
        /\ (call.op = "Gql" \/ call.read = "ok"))
       => Len(sent) = 1
C1_Witness ==
  /\ pc = "done" /\ call.op = "Do" /\ call.read = "ok"
  /\ Len(sent) = 1 /\ result.err = InvokeFailed.err

\* C2: parseUri splits at the first '/': identifier before it, path from it
\* on; without a '/' it returns an error and neither part.
C2_ParseUri ==
  IsCall =>
    LET p == parseUri(call.uri) IN
      IF HasSlash(call.uri)
        THEN /\ p.err = Nil
             /\ Len(p.functionName) = 1 /\ Len(p.path) = 1
             /\ p.functionName[1] \o p.path[1] = call.uri
             /\ ~HasSlash(p.functionName[1])
             /\ p.path[1][1] = "/"
        ELSE p.err # Nil /\ p.functionName = Nil /\ p.path = Nil
C2_Witness ==
  /\ pc = "invoking" /\ call.uri = <<"/", "fn", "/">>
  /\ pending[1].FunctionName = <<>>

\* C3: every envelope Do sends carries the four fixed headers with the
\* client's values, whatever the request's headers are.
C3_FixedHeadersWin ==
  call.op = "Do" =>
    \A i \in 1..Len(sent) :
      LET h == Field(Envelope(i), "headers") IN
        /\ h.t = "obj" /\ NoDupKeys(h)
        /\ FixedKeys \subseteq KeySet(h)
        /\ Member(h, <<"LifeOmic-Account">>) = JStr(client.account)
        /\ Member(h, <<"LifeOmic-User">>) = JStr(client.user)
        /\ Member(h, <<"content-type">>) = JStr(<<"application/json">>)
        /\ Member(h, <<"LifeOmic-Policy">>).t = "str"
        /\ PolicyMatches(Member(h, <<"LifeOmic-Policy">>).s, client.rules)
C3_Witness ==
  /\ call.op = "Do" /\ Len(sent) = 1
  /\ <<"LifeOmic-Account">> \in DOMAIN call.header
  /\ call.header[<<"LifeOmic-Account">>] = <<<<"x">>>>

\* C4: with a well-formed reply whose body parses, Gql fails with the first
\* error's message and no data when errors is non-empty, else returns data.
C4_FirstErrorWins ==
  (pc = "done" /\ call.op = "Gql" /\ Len(sent) = 1 /\ resp[1].err = Nil) =>
    LET payload == UnmarshalResponsePayload(resp[1].Payload)
        body == UnmarshalResponseBody(payload.v.Body)
        errs == Field(ScanText(payload.v.Body).v, "errors")
    IN (payload.err = Nil /\ body.err = Nil) =>
         IF errs.t = "arr" /\ Len(errs.items) > 0
           THEN result = Returned(Nil, Ptr(Field(errs.items[1], "message").s))
           ELSE result = Returned(Ptr(body.v.Data), Nil)
C4_Witness ==
  /\ pc = "done" /\ call.op = "Gql"
  /\ result = Returned(Nil, Ptr(<<"boom">>))
  /\ LET errs == Field(ScanText(UnmarshalResponsePayload(resp[1].Payload).v.Body).v,
                       "errors")
     IN Len(errs.items) = 2 /\ Field(errs.items[2], "message").s = <<"second">>

\* C5: when the request body cannot be fully read, Do returns an error and
\* no response, and no envelope is sent.
C5_ReadFailureFails ==
  (call.op = "Do" /\ call.read = "failed") =>
    /\ pending = Nil /\ sent = <<>>
    /\ pc = "done" /\ result.kind = "return"
    /\ result.err # Nil /\ result.value = Nil

\* C6: when the variables cannot be serialized, Gql aborts as a fatal error
\* and does not invoke the gateway.
C6_SerializationFailureAborts ==
  (call.op = "Gql" /\ HasSlash(call.uri)
     /\ MarshalGqlBody(call.query, call.variables).err # Nil) =>
    /\ pending = Nil /\ sent = <<>>
    /\ result.kind = "fatal"

\* C7: with a well-formed reply Do returns its status code, body and headers,
\* each header as a one-element list; with an unparseable reply it returns an
\* error and no response.
C7_DoResponse ==
  (pc = "done" /\ call.op = "Do" /\ Len(sent) = 1 /\ resp[1].err = Nil) =>
    LET t == ScanText(resp[1].Payload)
        h == Field(t.v, "headers")
        keys == IF h.t = "obj" THEN KeySet(h) ELSE {}
    IN IF UnmarshalResponsePayload(resp[1].Payload).err = Nil
         THEN /\ result.kind = "return" /\ result.err = Nil
              /\ Len(result.value) = 1
              /\ result.value[1].StatusCode = Field(t.v, "statusCode").n
              /\ result.value[1].Body = Field(t.v, "body").s
              /\ DOMAIN result.value[1].Header = keys
              /\ \A k \in keys : result.value[1].Header[k] = <<Member(h, k).s>>
         ELSE result.kind = "return" /\ result.err # Nil /\ result.value = Nil
C7_Witness ==
  /\ pc = "done" /\ call.op = "Do" /\ result.err = Nil
  /\ Len(result.value) = 1
  /\ result.value[1].StatusCode = 404
  /\ result.value[1].Body = <<"hello">>
  /\ DOMAIN result.value[1].Header = {<<"X-Test">>, <<"a">>}

\* C8: buildHeaders returns exactly the four fixed keys: the account, the
\* user, application/json, and a JSON text that parses to {"rules": rules}.
C8_BuildHeaders ==
  call.op = "buildHeaders" =>
    LET h == result.value[1] IN
      /\ ~h.isNil
      /\ DOMAIN h.kv = FixedKeys
      /\ h.kv[<<"LifeOmic-Account">>] = client.account
      /\ h.kv[<<"LifeOmic-User">>] = client.user
      /\ h.kv[<<"content-type">>] = <<"application/json">>
      /\ PolicyMatches(h.kv[<<"LifeOmic-Policy">>], client.rules)
C8_Witness ==
  /\ call.op = "buildHeaders"
  /\ client.account # client.user
  /\ ~client.rules.isNil
  /\ <<"a", "\"">> \in DOMAIN client.rules.kv
  /\ \A k \in DOMAIN client.rules.kv : ~client.rules.kv[k]

\* C9: no call changes the client, and a Gql call repeated with the same
\* inputs and the same gateway reply sends the same envelope and returns the
\* same result.
SameAsRemembered ==
  /\ prev # Nil /\ pc = "done" /\ call.op = "Gql"
  /\ prev[1].uri = call.uri /\ prev[1].query = call.query
  /\ prev[1].variables = call.variables /\ prev[1].resp = resp
C9_Idempotent ==
  SameAsRemembered => (prev[1].sent = sent /\ prev[1].result = result)
C9_ClientImmutable == [][client' = client]_vars /\ []C9_Idempotent
C9_Witness == SameAsRemembered /\ result.value # Nil /\ Len(sent) = 1

\* C10: every envelope Do sends maps each non-fixed request header key to the
\* first value of its list, has no key beyond the fixed and the request's
\* keys, and has an empty query-parameter map.
C10_CallerHeaders ==
  call.op = "Do" =>
    \A i \in 1..Len(sent) :
      LET e == Envelope(i)
          h == Field(e, "headers")
      IN /\ h.t = "obj"
         /\ \A k \in DOMAIN call.header \ FixedKeys :
              HasKey(h, k) /\ Member(h, k) = JStr(call.header[k][1])
         /\ KeySet(h) \subseteq FixedKeys \cup DOMAIN call.header
         /\ HasKey(e, <<"queryStringParameters">>)
         /\ Field(e, "queryStringParameters") = JObj(<<>>, <<>>)
C10_Witness ==
  /\ call.op = "Do" /\ Len(sent) = 1
  /\ <<"X-Req">> \in DOMAIN call.header
  /\ call.header[<<"X-Req">>] = <<<<"x">>, <<"y">>>>

====
